---- MODULE Spec2Model ----
(***************************************************************************)
(* Model of scripts/bin/validate-registry.ts (rewtf-registry): the         *)
(* RegistryValidator with the Flow-ecosystem check (lines 6-288) and the   *)
(* main function that drives it (lines 290-320).                           *)
(*                                                                         *)
(* JavaScript strings that the code inspects (trim, regular expressions,   *)
(* includes, toLowerCase) are sequences of one-character strings.  Names   *)
(* that the code only compares for equality (file names, package names,    *)
(* API paths, message templates) are TLA+ strings.                         *)
(***************************************************************************)
EXTENDS Integers, Sequences, FiniteSets, TLC

(***************************************************************************)
(* Bounds of the model.                                                    *)
(***************************************************************************)
MaxData == 2
MaxRepos == 2

(***************************************************************************)
(* Program constants.                                                      *)
(***************************************************************************)
HTTP_OK == 200
EvmHexLen == 40
EvmLen == 42
FlowHexLen == 16
FlowLen == 18

(***************************************************************************)
(* JavaScript values: a tag t and a payload v.                             *)
(***************************************************************************)
Undef == [t |-> "undefined", v |-> 0]
Null == [t |-> "null", v |-> 0]
Num(n) == [t |-> "number", v |-> n]
Str(s) == [t |-> "string", v |-> s]
Arr(a) == [t |-> "array", v |-> a]
Obj(r) == [t |-> "object", v |-> r]

\* typeof x === "string"
IsString(x) == x.t = "string"

\* Array.isArray(x)
IsArray(x) == x.t = "array"

\* typeof x === "object" (an array and null are objects too)
TypeofObject(x) == x.t \in {"object", "array", "null"}

\* JavaScript truthiness: undefined, null, 0 and "" are falsy
Truthy(x) ==
  CASE x.t \in {"undefined", "null"} -> FALSE
    [] x.t = "number" -> x.v # 0
    [] x.t = "string" -> x.v # <<>>
    [] OTHER -> TRUE

\* obj.field: undefined when obj is a string, number or array, or lacks it
Field(obj, f) ==
  IF obj.t = "object" /\ f \in DOMAIN obj.v THEN obj.v[f] ELSE Undef

(***************************************************************************)
(* String operations, as the JavaScript built-ins compute them.            *)
(***************************************************************************)
IsSpace(c) == c \in {" ", "\t", "\n"}

RECURSIVE TrimStart(_)
TrimStart(s) ==
  IF s # <<>> /\ IsSpace(Head(s)) THEN TrimStart(Tail(s)) ELSE s

RECURSIVE TrimEnd(_)
TrimEnd(s) ==
  IF s # <<>> /\ IsSpace(s[Len(s)])
    THEN TrimEnd(SubSeq(s, 1, Len(s) - 1))
    ELSE s

\* String.prototype.trim
Trim(s) == TrimEnd(TrimStart(s))

\* s.startsWith(p)
StartsWith(s, p) == Len(s) >= Len(p) /\ SubSeq(s, 1, Len(p)) = p

\* s.endsWith(p)
EndsWith(s, p) ==
  Len(s) >= Len(p) /\ SubSeq(s, Len(s) - Len(p) + 1, Len(s)) = p

\* p occurs in s at position k
OccursAt(s, p, k) ==
  k + Len(p) - 1 <= Len(s) /\ SubSeq(s, k, k + Len(p) - 1) = p

\* s.includes(p)
Includes(s, p) == \E k \in 1..(Len(s) + 1) : OccursAt(s, p, k)

Upper == <<"A","B","C","D","E","F","G","H","I","J","K","L","M",
           "N","O","P","Q","R","S","T","U","V","W","X","Y","Z">>
Lower == <<"a","b","c","d","e","f","g","h","i","j","k","l","m",
           "n","o","p","q","r","s","t","u","v","w","x","y","z">>

LowerChar(c) ==
  IF \E k \in 1..Len(Upper) : Upper[k] = c
    THEN Lower[CHOOSE k \in 1..Len(Upper) : Upper[k] = c]
    ELSE c

\* s.toLowerCase()
ToLowerCase(s) == [k \in 1..Len(s) |-> LowerChar(s[k])]

HexDigits == {"0","1","2","3","4","5","6","7","8","9",
              "a","b","c","d","e","f","A","B","C","D","E","F"}

\* /^0x[0-9a-fA-F]{n}$/.test(s)
MatchesHexAddress(s, n) ==
  /\ Len(s) = n + 2
  /\ s[1] = "0"
  /\ s[2] = "x"
  /\ \A k \in 3..Len(s) : s[k] \in HexDigits

(***************************************************************************)
(* The repository URL pattern /https:\/\/github\.com\/([^/]+)\/([^/]+)/    *)
(* (not anchored: the leftmost match wins, each group is greedy).          *)
(***************************************************************************)
GitHubPrefix == <<"h","t","t","p","s",":","/","/","g","i","t","h","u","b",
                  ".","c","o","m","/">>

\* last index of the longest run of non-slash characters that starts at k
RECURSIVE RunEnd(_, _)
RunEnd(s, k) ==
  IF k <= Len(s) /\ s[k] # "/" THEN RunEnd(s, k + 1) ELSE k - 1

\* the pattern matches with its first character at position k
MatchesAt(s, k) ==
  /\ OccursAt(s, GitHubPrefix, k)
  /\ LET o == k + Len(GitHubPrefix)
         oe == RunEnd(s, o)
     IN /\ oe >= o
        /\ oe + 1 <= Len(s)
        /\ s[oe + 1] = "/"
        /\ RunEnd(s, oe + 2) >= oe + 2

NoMatch == [matched |-> FALSE, owner |-> <<>>, repo |-> <<>>]

\* url.match(pattern): the groups of the leftmost match, or no match
MatchGitHubUrl(s) ==
  IF \E k \in 1..Len(s) : MatchesAt(s, k)
    THEN LET k == CHOOSE m \in 1..Len(s) :
                    MatchesAt(s, m) /\ \A n \in 1..(m - 1) : ~MatchesAt(s, n)
             o == k + Len(GitHubPrefix)
             oe == RunEnd(s, o)
         IN [matched |-> TRUE,
             owner |-> SubSeq(s, o, oe),
             repo |-> SubSeq(s, oe + 2, RunEnd(s, oe + 2))]
    ELSE NoMatch

GitSuffix == <<".","g","i","t">>

\* repo.replace(/\.git$/, "")
StripGitSuffix(repo) ==
  IF EndsWith(repo, GitSuffix)
    THEN SubSeq(repo, 1, Len(repo) - Len(GitSuffix))
    ELSE repo

(***************************************************************************)
(* External service calls (Octokit) and their replies.  A call either      *)
(* throws (any status >= 400, or a network failure) or returns a response  *)
(* with a status and data.                                                 *)
(***************************************************************************)
UserCall(username) ==
  [api |-> "users.getByUsername", owner |-> username, repo |-> <<>>, path |-> ""]

RepoCall(owner, repo) ==
  [api |-> "repos.get", owner |-> owner, repo |-> repo, path |-> ""]

ContentCall(owner, repo, path) ==
  [api |-> "repos.getContent", owner |-> owner, repo |-> repo, path |-> path]

NoCall == [api |-> "none", owner |-> <<>>, repo |-> <<>>, path |-> ""]

\* data of a response
NoData == [kind |-> "none", text |-> <<>>, json |-> Undef, names |-> <<>>]
FileData(text) == [kind |-> "file", text |-> text, json |-> Undef, names |-> <<>>]
\* a file whose text JSON.parse turns into json (or throws on: json = Undef)
JsonFileData(json) == [kind |-> "file", text |-> <<>>, json |-> json, names |-> <<>>]
DirData(names) == [kind |-> "dir", text |-> <<>>, json |-> Undef, names |-> names]
\* an object without a content field (a submodule or symlink entry)
OtherData == [kind |-> "other", text |-> <<>>, json |-> Undef, names |-> <<>>]

Throws == [thrown |-> TRUE, status |-> 0, data |-> NoData]
Response(status, data) == [thrown |-> FALSE, status |-> status, data |-> data]

(***************************************************************************)
(* The external service: which users exist, and for each repository        *)
(* (owner, name) whether it exists and what each path of it holds.         *)
(***************************************************************************)
ReplyAt(files, path) == IF path \in DOMAIN files THEN files[path] ELSE Throws

\* svc.users: the reply for each user name; svc.repos: the repository (its
\* existence and files) behind each (owner, name)
Service(svc, call) ==
  CASE call.api = "users.getByUsername" ->
         IF call.owner \in DOMAIN svc.users THEN svc.users[call.owner] ELSE Throws
    [] call.api = "repos.get" ->
         IF <<call.owner, call.repo>> \in DOMAIN svc.repos
           THEN svc.repos[<<call.owner, call.repo>>].exists
           ELSE Throws
    [] call.api = "repos.getContent" ->
         IF <<call.owner, call.repo>> \in DOMAIN svc.repos
           THEN ReplyAt(svc.repos[<<call.owner, call.repo>>].files, call.path)
           ELSE Throws
    [] OTHER -> Throws

(***************************************************************************)
(* Markers the ecosystem check looks for (lines 153, 175-178, 197, 235).   *)
(***************************************************************************)
OnFlow == <<"o","n"," ","f","l","o","w">>
FlowBlockchain == <<"f","l","o","w"," ","b","l","o","c","k","c","h","a","i","n">>
FlowGoSdk == <<"g","i","t","h","u","b",".","c","o","m","/","o","n","f","l","o","w",
               "/","f","l","o","w","-","g","o","-","s","d","k">>
FlowGo == <<"g","i","t","h","u","b",".","c","o","m","/","o","n","f","l","o","w",
            "/","f","l","o","w","-","g","o">>
EvmEndpoint == <<"e","v","m",".","n","o","d","e","s",".","o","n","f","l","o","w",
                 ".","o","r","g">>
FlowPackages == {"@onflow/fcl", "@onflow/kit"}
HardhatConfigs == {"hardhat.config.js", "hardhat.config.ts"}
SolidityConfigs == {"hardhat.config.js", "hardhat.config.ts",
                    "truffle-config.js", "foundry.toml"}

(***************************************************************************)
(* File texts and repository profiles the model draws the service from.    *)
(***************************************************************************)
TextBuiltOnFlow == <<"B","u","i","l","t"," ","o","n"," ","F","l","o","w">>
TextFlowBlockchain == <<"A"," ","F","L","O","W"," ","B","l","o","c","k","c","h","a","i","n">>
TextPlain == <<"d","e","m","o"," ","f","l","o","w">>
TextGoMod == <<"r","e","q"," ">> \o FlowGoSdk
TextEndpoint == <<"u","r","l",":"," ">> \o EvmEndpoint \o <<"/">>

\* a manifest JSON.parse returns: each section is present or not, and lists packages
Manifest(hasDeps, deps, hasDev, dev) ==
  Obj([dependencies |-> [present |-> hasDeps, pkgs |-> deps],
       devDependencies |-> [present |-> hasDev, pkgs |-> dev]])

File(text) == Response(HTTP_OK, FileData(text))
JsonFile(json) == Response(HTTP_OK, JsonFileData(json))
Dir(names) == Response(HTTP_OK, DirData(names))
Found == Response(HTTP_OK, NoData)
Accepted == Response(HTTP_OK + 2, NoData)

Repo(exists, files) == [exists |-> exists, files |-> files]
NoFiles == [p \in {} |-> Throws]

PEmpty == Repo(Found, NoFiles)
PMissing == Repo(Throws, NoFiles)
PReadme == Repo(Found, [p \in {"README.md"} |-> File(TextBuiltOnFlow)])
PReadmeChain ==
  Repo(Accepted, [p \in {"README.md", "package.json"} |->
         IF p = "README.md" THEN File(TextFlowBlockchain) ELSE JsonFile(Null)])
PPkgDeps ==
  Repo(Found, [p \in {"README.md", "package.json"} |->
         IF p = "README.md" THEN File(TextPlain)
         ELSE JsonFile(Manifest(TRUE, {"@onflow/fcl"}, FALSE, {}))])
PPkgDevOnly ==
  Repo(Found, [p \in {"package.json"} |->
         JsonFile(Manifest(FALSE, {}, TRUE, {"@onflow/kit"}))])
PPkgDevWithDeps ==
  Repo(Found, [p \in {"README.md", "package.json"} |->
         IF p = "README.md" THEN Response(HTTP_OK, OtherData)
         ELSE JsonFile(Manifest(TRUE, {"react"}, TRUE, {"@onflow/fcl"}))])
PGoMod ==
  Repo(Found, [p \in {"package.json", "go.mod"} |->
         IF p = "package.json" THEN JsonFile(Undef) ELSE File(TextGoMod)])
PHardhat ==
  Repo(Found, [p \in {"README.md", "package.json", "", "hardhat.config.ts"} |->
         CASE p = "README.md" -> Response(HTTP_OK + 2, FileData(TextBuiltOnFlow))
           [] p = "package.json" -> JsonFile(Manifest(TRUE, {"react"}, FALSE, {}))
           [] p = "" -> Dir(<<"README.md", "hardhat.config.ts">>)
           [] OTHER -> File(TextEndpoint)])
PHardhatPlain ==
  Repo(Found, [p \in {"go.mod", "", "hardhat.config.js"} |->
         CASE p = "go.mod" -> File(TextPlain)
           [] p = "" -> Dir(<<"hardhat.config.js">>)
           [] OTHER -> File(TextPlain)])
PFoundry ==
  Repo(Found, [p \in {"", "foundry.toml"} |->
         IF p = "" THEN Dir(<<"foundry.toml", "src">>) ELSE File(TextEndpoint)])
PMixed ==
  Repo(Found, [p \in {"", "truffle-config.js", "hardhat.config.ts"} |->
         CASE p = "" -> Dir(<<"truffle-config.js", "hardhat.config.js",
                              "hardhat.config.ts">>)
           [] p = "truffle-config.js" -> File(TextPlain)
           [] OTHER -> File(TextEndpoint)])
PNoConfig ==
  Repo(Found, [p \in {"", "README.md"} |->
         IF p = "" THEN Dir(<<"README.md">>) ELSE File(TextPlain)])
PRootFile == Repo(Found, [p \in {""} |-> File(TextEndpoint)])

\* the profiles by name: the environment names the two repositories' profiles
ProfileNamed(name) ==
  CASE name = "empty" -> PEmpty
    [] name = "missing" -> PMissing
    [] name = "readme" -> PReadme
    [] name = "readmeChain" -> PReadmeChain
    [] name = "pkgDeps" -> PPkgDeps
    [] name = "pkgDevOnly" -> PPkgDevOnly
    [] name = "pkgDevWithDeps" -> PPkgDevWithDeps
    [] name = "goMod" -> PGoMod
    [] name = "hardhat" -> PHardhat
    [] name = "hardhatPlain" -> PHardhatPlain
    [] name = "foundry" -> PFoundry
    [] name = "mixed" -> PMixed
    [] name = "noConfig" -> PNoConfig
    [] OTHER -> PRootFile

Profiles == {"empty", "missing", "readme", "readmeChain", "pkgDeps", "pkgDevOnly",
             "pkgDevWithDeps", "goMod", "hardhat", "hardhatPlain", "foundry",
             "mixed", "noConfig", "rootFile"}
OtherProfiles == {"empty", "missing", "readme", "hardhat"}

(***************************************************************************)
(* Registry entries and registry files the model draws its inputs from.    *)
(***************************************************************************)
Alice == <<"a","l","i","c","e">>
Bob == <<"b","o","b">>
Ghost == <<"g","h","o","s","t">>
Mallory == <<"m","a","l">>
OwnerA == <<"a">>
RepoW == <<"w">>
RepoO == <<"o">>

Url(owner, repo) == GitHubPrefix \o owner \o <<"/">> \o repo
UrlW == Url(OwnerA, RepoW)
UrlO == Url(OwnerA, RepoO)
UrlWGit == <<" ">> \o UrlW \o GitSuffix \o <<"/","t","r","e","e">>
UrlBad == <<"n","o","t","-","a","-","u","r","l">>
UrlNoRepo == GitHubPrefix \o OwnerA \o <<"/">>

Hex(n) == [k \in 1..n |-> IF k % 2 = 0 THEN "A" ELSE "9"]
EvmGood == <<"0","x">> \o Hex(EvmHexLen)
FlowGood == <<"0","x">> \o Hex(FlowHexLen)
EvmShort == <<"0","x","1","2","3">>
FlowNotHex == <<"0","x">> \o Hex(FlowHexLen - 1) \o <<"g">>

Wallets(evm, flow) == Obj([evm |-> evm, flow |-> flow])
GoodWallets == Wallets(Str(EvmGood), Str(FlowGood))

Entry(name, github, repos, wallets, x) ==
  Obj([name |-> name, github |-> github, repos |-> repos,
       wallets |-> wallets, x |-> x])

Users == [u \in {Alice, Bob, Mallory} |-> IF u = Bob THEN Accepted ELSE Found]

\* the service in which repository a/w has profile w and a/o has profile o
World(w, o) ==
  [users |-> Users,
   repos |-> [r \in {<<OwnerA, RepoW>>, <<OwnerA, RepoO>>} |->
                IF r[2] = RepoW THEN ProfileNamed(w) ELSE ProfileNamed(o)]]

\* what reading and parsing registry.yaml gives
ReadError == [outcome |-> "readError", data |-> Undef]
YamlError == [outcome |-> "yamlError", data |-> Undef]
Parsed(data) == [outcome |-> "parsed", data |-> data]

\* sequences over S of length at most n
SeqsUpTo(S, n) == UNION {[1..k -> S] : k \in 0..n}

\* files: registry.yaml as each run of the process finds it
\* w, o: the profiles of the repositories a/w and a/o in the service
Env(token, files, w, o) == [token |-> token, files |-> files, w |-> w, o |-> o]

\* the field checks: every combination of the fields of a single entry
NameValues == {Undef, Str(<<>>), Str(<<"T">>), Num(7)}
GithubValues == {Undef, Arr(<<>>), Str(Alice), Arr(<<Str(Alice)>>),
                 Arr(<<Str(<<" ">> \o Alice \o <<" ">>), Str(Ghost)>>),
                 Arr(<<Str(<<" ">>), Num(0), Str(Bob)>>)}
ReposValues == {Undef, Arr(<<>>), Str(UrlW), Arr(<<Str(UrlW)>>),
                Arr(<<Str(UrlWGit), Str(UrlBad)>>),
                Arr(<<Num(1), Str(<<" ">>), Str(UrlNoRepo), Str(UrlO)>>)}
WalletValues == {Undef, GoodWallets, Str(EvmGood),
                 Wallets(Str(EvmShort), Str(FlowNotHex)),
                 Wallets(Num(5), Str(<<" ">> \o FlowGood)),
                 Wallets(Str(EvmGood \o <<"0">>), Undef)}
XValues == {Undef, Arr(<<Str(Alice)>>), Arr(<<Str(<<" ">>), Num(3)>>)}

FieldEntries ==
  {Entry(n, g, r, w, x) : n \in NameValues, g \in GithubValues,
                          r \in ReposValues, w \in WalletValues, x \in XValues}

FieldInputs ==
  {Env(TRUE, <<Parsed(Arr(<<e>>))>>, "pkgDeps", "missing") :
     e \in FieldEntries}

\* the ecosystem check: a valid entry, its repos and the service vary
EcoUrls == {Str(UrlW), Str(UrlO), Str(UrlBad)}

EcoInputs ==
  {Env(TRUE,
       <<Parsed(Arr(<<Entry(Str(<<"T">>), Arr(<<Str(Alice)>>), Arr(urls),
                           GoodWallets, Undef)>>))>>,
       w, o) :
     urls \in SeqsUpTo(EcoUrls, MaxRepos), w \in Profiles, o \in OtherProfiles}

\* the registry file: what it parses to, and the records before the last one
EntryA == Entry(Str(<<"T">>), Arr(<<Str(Alice)>>), Arr(<<Str(UrlW)>>),
                GoodWallets, Undef)
EntryB == Entry(Undef, Arr(<<Str(Mallory)>>), Arr(<<Str(UrlO)>>),
                Wallets(Str(EvmShort), Str(FlowGood)), Undef)
DataElements == {Null, EntryA, EntryB}

DataFiles ==
  {ReadError, YamlError, Parsed(Undef), Parsed(Str(<<"x">>)), Parsed(EntryA),
   Parsed(Arr(<<Arr(<<>>)>>)), Parsed(Arr(<<Null, Str(<<"x">>)>>)),
   Parsed(Arr(<<EntryB, Str(<<"x">>)>>))}
  \cup {Parsed(Arr(d)) : d \in SeqsUpTo(DataElements, MaxData)}

DataInputs ==
  {Env(TRUE, <<f1, f2>>, "goMod", "empty") : f1 \in DataFiles, f2 \in DataFiles}
  \cup {Env(FALSE, <<Parsed(Arr(<<EntryA>>))>>, "goMod", "empty")}

\* the same registry file found by two runs: an entry with errors in every check
EntryC == Entry(Num(7), Arr(<<Str(<<" ">>), Num(0), Str(Bob)>>),
                Arr(<<Str(UrlWGit), Str(UrlBad), Str(UrlO)>>),
                Wallets(Str(EvmShort), Str(FlowNotHex)),
                Arr(<<Str(<<" ">>), Num(3)>>))

RepeatInputs ==
  {Env(TRUE, <<Parsed(Arr(<<e>>)), Parsed(Arr(<<e>>))>>, "hardhatPlain", "missing") :
     e \in {EntryC}}

Inputs == FieldInputs \cup EcoInputs \cup DataInputs \cup RepeatInputs

(***************************************************************************)
(* State.                                                                  *)
(*   env       the environment of the runs: GITHUB_TOKEN, registry.yaml of *)
(*             each run, the external service                              *)
(*   run       which run of the process this is                            *)
(*   pc        where main / validateRegistry stands                        *)
(*   entry     the entry under test (line 29)                              *)
(*   errors    RegistryValidator.errors (line 8)                           *)
(*   i, j      loop positions: item of github/repos, file of the listing   *)
(*   listing   filesResponse.data of the current repository (line 224)     *)
(*   pending   the external call being awaited, NoCall when none           *)
(*   calls     every external call issued in this run, in order            *)
(*   result    what validateRegistry returned                              *)
(*   written   tmp/validation-result.json                                  *)
(*   exitCode  the status the process exited with, -1 while running        *)
(*   prev      result, calls and exit status of the previous run           *)
(***************************************************************************)
VARIABLES env, run, pc, entry, errors, i, j, listing, pending, calls,
          result, written, exitCode, prev

vars == <<env, run, pc, entry, errors, i, j, listing, pending, calls,
          result, written, exitCode, prev>>

Err(msg, arg) == [msg |-> msg, arg |-> arg]

NoResult == [returned |-> FALSE, isValid |-> FALSE, errors |-> <<>>]
NoFile == [present |-> FALSE, isValid |-> FALSE, errors |-> <<>>]
NoPrev == [result |-> NoResult, calls |-> <<>>, exitCode |-> -1]

Fresh ==
  /\ pc = "main"
  /\ entry = Undef
  /\ errors = <<>>
  /\ i = 1
  /\ j = 1
  /\ listing = <<>>
  /\ pending = NoCall
  /\ calls = <<>>
  /\ result = NoResult
  /\ written = NoFile
  /\ exitCode = -1

Init ==
  /\ env \in Inputs
  /\ run = 1
  /\ prev = NoPrev
  /\ Fresh

\* the external call the code awaits: it is logged with the item it is for
Await(call, where) ==
  /\ pending' = call
  /\ calls' = Append(calls, [call |-> call, item |-> i, at |-> where])
  /\ pc' = where

\* the reply to the awaited call
\* the service of this environment
Svc == World(env.w, env.o)

Reply == Service(Svc, pending)

(***************************************************************************)
(* main, lines 290-298: the token check and the validator's construction.  *)
(***************************************************************************)
MainStart ==
  /\ pc = "main"
  /\ IF env.token
       THEN pc' = "load" /\ exitCode' = exitCode
       ELSE pc' = "exited" /\ exitCode' = 1
  /\ errors' = <<>>
  /\ UNCHANGED <<env, run, entry, i, j, listing, pending, calls, result,
                 written, prev>>

(***************************************************************************)
(* validateRegistry, lines 17-29 and the catch block, lines 59-62.         *)
(***************************************************************************)
\* the filter without its null guard (typeof null is "object")
IsObjectEntry_NoNullGuard(e) == TypeofObject(e)

\* the filter predicate of line 22
IsObjectEntry(e) == Truthy(e) /\ TypeofObject(e)

\* line 22
ObjectEntries(data) == SelectSeq(data, IsObjectEntry)

\* the first entry taken for the newest
SelectEntry_First(entries) == entries[1]

\* line 29
SelectEntry(entries) == entries[Len(entries)]

\* lines 24-25
NoEntriesResult(errs) ==
  LET es == Append(errs, Err("No valid registry entries found", Undef))
  IN [returned |-> TRUE, isValid |-> FALSE, errors |-> es]

\* the catch block returning without recording the error
CaughtResult_NoPush(errs) ==
  [returned |-> TRUE, isValid |-> FALSE, errors |-> errs]

\* lines 60-61
CaughtResult(errs) ==
  LET es == Append(errs, Err("Failed to parse registry file", Undef))
  IN [returned |-> TRUE, isValid |-> FALSE, errors |-> es]

\* lines 55-58
FinalResult(errs) ==
  [returned |-> TRUE, isValid |-> (Len(errs) = 0), errors |-> errs]

\* readFileSync or yaml.load throws, or data.filter is not a function
LoadThrows(file) == file.outcome # "parsed" \/ ~IsArray(file.data)

LoadRegistry ==
  /\ pc = "load"
  /\ LET file == env.files[run]
     IN IF LoadThrows(file)
          THEN /\ result' = CaughtResult(errors)
               /\ errors' = result'.errors
               /\ pc' = "returned"
               /\ entry' = entry
          ELSE IF Len(ObjectEntries(file.data.v)) = 0
            THEN /\ result' = NoEntriesResult(errors)
                 /\ errors' = result'.errors
                 /\ pc' = "returned"
                 /\ entry' = entry
            ELSE /\ entry' = SelectEntry(ObjectEntries(file.data.v))
                 /\ pc' = "required"
                 /\ UNCHANGED <<result, errors>>
  /\ UNCHANGED <<env, run, i, j, listing, pending, calls, written, exitCode, prev>>

(***************************************************************************)
(* validateRequiredFields, lines 65-79.                                    *)
(***************************************************************************)
NameInvalid(e) == ~Truthy(Field(e, "name")) \/ ~IsString(Field(e, "name"))

ListInvalid(e, f) ==
  ~Truthy(Field(e, f)) \/ ~IsArray(Field(e, f)) \/ Len(Field(e, f).v) = 0

\* the name test without its typeof check
RequiredFieldErrors_NoTypeof(e) ==
  (IF ~Truthy(Field(e, "name"))
     THEN <<Err("Missing or invalid 'name' field", Undef)>> ELSE <<>>)
  \o (IF ListInvalid(e, "github")
        THEN <<Err("Missing or invalid 'github' field", Undef)>> ELSE <<>>)
  \o (IF ListInvalid(e, "repos")
        THEN <<Err("Missing or invalid 'repos' field", Undef)>> ELSE <<>>)

RequiredFieldErrors(e) ==
  (IF NameInvalid(e)
     THEN <<Err("Missing or invalid 'name' field", Undef)>> ELSE <<>>)
  \o (IF ListInvalid(e, "github")
        THEN <<Err("Missing or invalid 'github' field", Undef)>> ELSE <<>>)
  \o (IF ListInvalid(e, "repos")
        THEN <<Err("Missing or invalid 'repos' field", Undef)>> ELSE <<>>)

\* the guards of lines 35, 40 and 51
IsList(e, f) == Truthy(Field(e, f)) /\ IsArray(Field(e, f))

List(e, f) == Field(e, f).v

AfterHandles(e) == IF IsList(e, "repos") THEN "urls" ELSE "wallets"

AfterRequired(e) == IF IsList(e, "github") THEN "handles" ELSE AfterHandles(e)

ValidateRequiredFields ==
  /\ pc = "required"
  /\ errors' = errors \o RequiredFieldErrors(entry)
  /\ pc' = AfterRequired(entry)
  /\ i' = 1
  /\ UNCHANGED <<env, run, entry, j, listing, pending, calls, result, written,
                 exitCode, prev>>

(***************************************************************************)
(* validateGitHubHandles, lines 81-100: one step per handle, the lookup    *)
(* awaited in between.                                                     *)
(***************************************************************************)
\* the test without trim: a string of spaces passes as a value
BlankOrNotString_NoTrim(h) == ~IsString(h)

\* line 83 (and line 283 for X handles)
BlankOrNotString(h) == ~IsString(h) \/ Trim(h.v) = <<>>

GitHubHandleLoop ==
  /\ pc = "handles"
  /\ LET handles == List(entry, "github")
     IN IF i > Len(handles)
          THEN /\ pc' = AfterHandles(entry)
               /\ i' = 1
               /\ UNCHANGED <<errors, pending, calls>>
          ELSE IF BlankOrNotString(handles[i])
            THEN /\ errors' = Append(errors, Err("Invalid GitHub handle", handles[i]))
                 /\ i' = i + 1
                 /\ UNCHANGED <<pc, pending, calls>>
            ELSE /\ Await(UserCall(Trim(handles[i].v)), "userLookup")
                 /\ UNCHANGED <<errors, i>>
  /\ UNCHANGED <<env, run, entry, j, listing, result, written, exitCode, prev>>

\* a lookup whose status is never looked at
LookupErrors_ThrownOnly(reply, thrownMsg, statusMsg, subject) ==
  IF reply.thrown THEN <<Err(thrownMsg, subject)>> ELSE <<>>

\* lines 93-98: the error a lookup's reply adds, if any
LookupErrors(reply, thrownMsg, statusMsg, subject) ==
  IF reply.thrown THEN <<Err(thrownMsg, subject)>>
  ELSE IF reply.status # HTTP_OK THEN <<Err(statusMsg, subject)>>
  ELSE <<>>

UserLookupReturns ==
  /\ pc = "userLookup"
  /\ errors' = errors \o LookupErrors(Reply,
                           "GitHub handle is not valid or not found",
                           "GitHub handle is not accessible",
                           List(entry, "github")[i])
  /\ pending' = NoCall
  /\ i' = i + 1
  /\ pc' = "handles"
  /\ UNCHANGED <<env, run, entry, j, listing, calls, result, written, exitCode, prev>>

(***************************************************************************)
(* validateRepositoryUrls, lines 102-132.                                  *)
(***************************************************************************)
\* lines 117-123 (and 140-148): the owner and repository a URL names
OwnerOf(url) == Trim(MatchGitHubUrl(url).owner)
RepoOf(url) == Trim(StripGitSuffix(MatchGitHubUrl(url).repo))

RepositoryUrlLoop ==
  /\ pc = "urls"
  /\ LET urls == List(entry, "repos")
     IN IF i > Len(urls)
          THEN /\ pc' = "eco"
               /\ i' = 1
               /\ UNCHANGED <<errors, pending, calls>>
          ELSE IF BlankOrNotString(urls[i])
            THEN /\ errors' = Append(errors, Err("Invalid repository URL", urls[i]))
                 /\ i' = i + 1
                 /\ UNCHANGED <<pc, pending, calls>>
          ELSE IF ~MatchGitHubUrl(urls[i].v).matched
            THEN /\ errors' = Append(errors, Err("Invalid GitHub URL format", urls[i]))
                 /\ i' = i + 1
                 /\ UNCHANGED <<pc, pending, calls>>
            ELSE /\ Await(RepoCall(OwnerOf(urls[i].v), RepoOf(urls[i].v)), "repoLookup")
                 /\ UNCHANGED <<errors, i>>
  /\ UNCHANGED <<env, run, entry, j, listing, result, written, exitCode, prev>>

RepoLookupReturns ==
  /\ pc = "repoLookup"
  /\ errors' = errors \o LookupErrors(Reply,
                           "Repository is not valid or not found",
                           "Repository is not accessible",
                           List(entry, "repos")[i])
  /\ pending' = NoCall
  /\ i' = i + 1
  /\ pc' = "urls"
  /\ UNCHANGED <<env, run, entry, j, listing, calls, result, written, exitCode, prev>>

(***************************************************************************)
(* validateFlowEcosystemRequirements, lines 134-259: per repository URL    *)
(* the probes README.md, package.json, go.mod, the root listing and the    *)
(* configuration files, each awaited before the next.                      *)
(***************************************************************************)
EcoError(url) ==
  Err("Repository does not meet Flow ecosystem requirements", url)

\* a response with status 200 whose data has a content field
HasContent(reply) ==
  ~reply.thrown /\ reply.status = HTTP_OK /\ reply.data.kind = "file"

\* the README text searched without lowering its case
ReadmeConfirms_CaseSensitive(reply) ==
  /\ HasContent(reply)
  /\ \/ Includes(reply.data.text, OnFlow)
     \/ Includes(reply.data.text, FlowBlockchain)

\* lines 151-156
ReadmeConfirms(reply) ==
  /\ HasContent(reply)
  /\ \/ Includes(ToLowerCase(reply.data.text), OnFlow)
     \/ Includes(ToLowerCase(reply.data.text), FlowBlockchain)

\* lines 173-179: the condition on the parsed manifest
ManifestConfirms(m) ==
  /\ m.dependencies.present
  /\ \/ "@onflow/fcl" \in m.dependencies.pkgs
     \/ "@onflow/kit" \in m.dependencies.pkgs
     \/ (m.devDependencies.present /\ "@onflow/fcl" \in m.devDependencies.pkgs)
     \/ (m.devDependencies.present /\ "@onflow/kit" \in m.devDependencies.pkgs)

\* lines 169-181; JSON.parse throwing, or the manifest being null, is caught
PackageConfirms(reply) ==
  /\ HasContent(reply)
  /\ reply.data.json.t = "object"
  /\ ManifestConfirms(reply.data.json.v)

\* lines 195-199
GoModConfirms(reply) ==
  /\ HasContent(reply)
  /\ \/ Includes(reply.data.text, FlowGoSdk)
     \/ Includes(reply.data.text, FlowGo)

\* lines 213-222
HasSolidityConfig(reply) ==
  /\ ~reply.thrown
  /\ reply.status = HTTP_OK
  /\ reply.data.kind = "dir"
  /\ \E k \in 1..Len(reply.data.names) : reply.data.names[k] \in SolidityConfigs

\* line 225: the files of the listing that are fetched
IsFetchedConfig(name) == name \in HardhatConfigs

\* lines 233-237
ConfigConfirms(reply) ==
  HasContent(reply) /\ Includes(reply.data.text, EvmEndpoint)

\* how each probe leaves the loop body once it confirms (lines 154, 180, 198, 236)
ReadmeConfirmed == "return"
PackageConfirmed == "continue"
GoModConfirmed == "continue"
ConfigConfirmed == "return"

\* return ends the whole check, continue goes to the next URL
Leave(how) ==
  /\ pending' = NoCall
  /\ IF how = "return"
       THEN pc' = "wallets" /\ i' = i
       ELSE pc' = "eco" /\ i' = i + 1

EcoUrl == List(entry, "repos")[i]

Probe(path, where) ==
  Await(ContentCall(OwnerOf(EcoUrl.v), RepoOf(EcoUrl.v), path), where)

EcosystemLoop ==
  /\ pc = "eco"
  /\ IF i > Len(List(entry, "repos"))
       THEN /\ pc' = "wallets"
            /\ UNCHANGED <<i, pending, calls>>
       \* url.match throws on a non-string (caught, line 254); no match: continue
       ELSE IF ~IsString(EcoUrl) \/ ~MatchGitHubUrl(EcoUrl.v).matched
         THEN /\ i' = i + 1
              /\ UNCHANGED <<pc, pending, calls>>
         ELSE /\ Probe("README.md", "readme")
              /\ i' = i
  /\ UNCHANGED <<env, run, entry, errors, j, listing, result, written, exitCode, prev>>

ReadmeReturns ==
  /\ pc = "readme"
  /\ IF ReadmeConfirms(Reply)
       THEN Leave(ReadmeConfirmed) /\ calls' = calls
       ELSE Probe("package.json", "package") /\ i' = i
  /\ UNCHANGED <<env, run, entry, errors, j, listing, result, written, exitCode, prev>>

PackageReturns ==
  /\ pc = "package"
  /\ IF PackageConfirms(Reply)
       THEN Leave(PackageConfirmed) /\ calls' = calls
       ELSE Probe("go.mod", "gomod") /\ i' = i
  /\ UNCHANGED <<env, run, entry, errors, j, listing, result, written, exitCode, prev>>

GoModReturns ==
  /\ pc = "gomod"
  /\ IF GoModConfirms(Reply)
       THEN Leave(GoModConfirmed) /\ calls' = calls
       ELSE Probe("", "root") /\ i' = i
  /\ UNCHANGED <<env, run, entry, errors, j, listing, result, written, exitCode, prev>>

RootReturns ==
  /\ pc = "root"
  /\ pending' = NoCall
  /\ IF HasSolidityConfig(Reply)
       THEN /\ listing' = Reply.data.names
            /\ j' = 1
            /\ pc' = "configs"
            /\ UNCHANGED <<errors, i>>
       ELSE /\ errors' = Append(errors, EcoError(EcoUrl))
            /\ i' = i + 1
            /\ pc' = "eco"
            /\ UNCHANGED <<listing, j>>
  /\ UNCHANGED <<env, run, entry, calls, result, written, exitCode, prev>>

ConfigLoop ==
  /\ pc = "configs"
  /\ IF j > Len(listing)
       THEN /\ errors' = Append(errors, EcoError(EcoUrl))
            /\ i' = i + 1
            /\ pc' = "eco"
            /\ UNCHANGED <<j, pending, calls>>
       ELSE IF IsFetchedConfig(listing[j])
         THEN /\ Probe(listing[j], "config")
              /\ UNCHANGED <<errors, i, j>>
         ELSE /\ j' = j + 1
              /\ UNCHANGED <<errors, i, pc, pending, calls>>
  /\ UNCHANGED <<env, run, entry, listing, result, written, exitCode, prev>>

ConfigReturns ==
  /\ pc = "config"
  /\ IF ConfigConfirms(Reply)
       THEN Leave(ConfigConfirmed) /\ j' = j
       ELSE /\ pending' = NoCall
            /\ j' = j + 1
            /\ pc' = "configs"
            /\ i' = i
  /\ UNCHANGED <<env, run, entry, errors, listing, calls, result, written,
                 exitCode, prev>>

(***************************************************************************)
(* validateWalletAddresses, lines 261-279, behind the guard of line 46.    *)
(***************************************************************************)
\* the length test written against the number of hex digits
AddressInvalid_HexLen(addr, len, hexLen) ==
  \/ ~StartsWith(addr, <<"0","x">>)
  \/ Len(addr) # hexLen
  \/ ~MatchesHexAddress(addr, hexLen)

\* lines 264 and 273: the three tests on the trimmed address
AddressInvalid(addr, len, hexLen) ==
  \/ ~StartsWith(addr, <<"0","x">>)
  \/ Len(addr) # len
  \/ ~MatchesHexAddress(addr, hexLen)

\* lines 262-269 and 271-278: only a non-empty string is tested
AddressErrors(value, len, hexLen, msg) ==
  IF Truthy(value) /\ IsString(value) /\ AddressInvalid(Trim(value.v), len, hexLen)
    THEN <<Err(msg, Str(Trim(value.v)))>>
    ELSE <<>>

WalletErrors(wallets) ==
  AddressErrors(Field(wallets, "evm"), EvmLen, EvmHexLen,
                "Invalid EVM wallet address")
  \o AddressErrors(Field(wallets, "flow"), FlowLen, FlowHexLen,
                   "Invalid Flow wallet address")

ValidateWalletAddresses ==
  /\ pc = "wallets"
  /\ errors' = IF Truthy(Field(entry, "wallets"))
                 THEN errors \o WalletErrors(Field(entry, "wallets"))
                 ELSE errors
  /\ pc' = "x"
  /\ UNCHANGED <<env, run, entry, i, j, listing, pending, calls, result, written,
                 exitCode, prev>>

(***************************************************************************)
(* validateXHandles, lines 281-287, behind the guard of line 51.           *)
(***************************************************************************)
\* the X-handle errors pushed last handle first
XHandleErrors_Reversed(handles) ==
  LET bad == SelectSeq(handles, BlankOrNotString)
  IN [k \in 1..Len(bad) |-> Err("Invalid X handle", bad[Len(bad) + 1 - k])]

XHandleErrors(handles) ==
  LET bad == SelectSeq(handles, BlankOrNotString)
  IN [k \in 1..Len(bad) |-> Err("Invalid X handle", bad[k])]

ValidateXHandles ==
  /\ pc = "x"
  /\ errors' = IF IsList(entry, "x")
                 THEN errors \o XHandleErrors(List(entry, "x"))
                 ELSE errors
  /\ pc' = "return"
  /\ UNCHANGED <<env, run, entry, i, j, listing, pending, calls, result, written,
                 exitCode, prev>>

\* lines 55-58
Return ==
  /\ pc = "return"
  /\ result' = FinalResult(errors)
  /\ pc' = "returned"
  /\ UNCHANGED <<env, run, entry, errors, i, j, listing, pending, calls, written,
                 exitCode, prev>>

(***************************************************************************)
(* main, lines 300-319: the result file and the exit status.               *)
(***************************************************************************)
\* the exit status not following the result
ExitStatus_AlwaysZero(res) == 0

\* lines 306-315
ExitStatus(res) == IF res.isValid THEN 0 ELSE 1

\* lines 301-304: mkdirSync and writeFileSync succeed
WriteResult ==
  /\ pc = "returned"
  /\ written' = [present |-> TRUE, isValid |-> result.isValid,
                 errors |-> result.errors]
  /\ pc' = "written"
  /\ UNCHANGED <<env, run, entry, errors, i, j, listing, pending, calls, result,
                 exitCode, prev>>

\* lines 301-304 throw (tmp cannot be created or written): lines 316-318
WriteFails ==
  /\ pc = "returned"
  /\ exitCode' = 1
  /\ pc' = "exited"
  /\ UNCHANGED <<env, run, entry, errors, i, j, listing, pending, calls, result,
                 written, prev>>

\* lines 306-315
Exit ==
  /\ pc = "written"
  /\ exitCode' = ExitStatus(result)
  /\ pc' = "exited"
  /\ UNCHANGED <<env, run, entry, errors, i, j, listing, pending, calls, result,
                 written, prev>>

(***************************************************************************)
(* The process is run again (the next CI job): a new process, a new        *)
(* validator, a fresh checkout; the service is the same.                   *)
(***************************************************************************)
\* a run that starts with the errors the previous run collected
RunAgain_KeepsErrors ==
  /\ pc = "exited"
  /\ run < Len(env.files)
  /\ run' = run + 1
  /\ prev' = [result |-> result, calls |-> calls, exitCode |-> exitCode]
  /\ pc' = "main"
  /\ entry' = Undef
  /\ errors' = errors
  /\ i' = 1
  /\ j' = 1
  /\ listing' = <<>>
  /\ pending' = NoCall
  /\ calls' = <<>>
  /\ result' = NoResult
  /\ written' = NoFile
  /\ exitCode' = -1
  /\ env' = env

RunAgain ==
  /\ pc = "exited"
  /\ run < Len(env.files)
  /\ run' = run + 1
  /\ prev' = [result |-> result, calls |-> calls, exitCode |-> exitCode]
  /\ pc' = "main"
  /\ entry' = Undef
  /\ errors' = <<>>
  /\ i' = 1
  /\ j' = 1
  /\ listing' = <<>>
  /\ pending' = NoCall
  /\ calls' = <<>>
  /\ result' = NoResult
  /\ written' = NoFile
  /\ exitCode' = -1
  /\ env' = env

Next ==
  \/ MainStart
  \/ LoadRegistry
  \/ ValidateRequiredFields
  \/ GitHubHandleLoop
  \/ UserLookupReturns
  \/ RepositoryUrlLoop
  \/ RepoLookupReturns
  \/ EcosystemLoop
  \/ ReadmeReturns
  \/ PackageReturns
  \/ GoModReturns
  \/ RootReturns
  \/ ConfigLoop
  \/ ConfigReturns
  \/ ValidateWalletAddresses
  \/ ValidateXHandles
  \/ Return
  \/ WriteResult
  \/ WriteFails
  \/ Exit
  \/ RunAgain

Spec == Init /\ [][Next]_vars

(***************************************************************************)
(* The strict variant of the validator, lines 335-482: wallets is a        *)
(* required field, there is no ecosystem check and no X-handle check. Its  *)
(* validateGitHubHandles (405-424) and main (484-522) are the code of the  *)
(* first variant again.                                                    *)
(***************************************************************************)
\* lines 389-403
StrictRequiredFieldErrors(e) ==
  RequiredFieldErrors(e)
  \o (IF ~Truthy(Field(e, "wallets")) \/ ~TypeofObject(Field(e, "wallets"))
        THEN <<Err("Missing or invalid 'wallets' field", Undef)>> ELSE <<>>)

StrictValidateRequiredFields ==
  /\ pc = "required"
  /\ errors' = errors \o StrictRequiredFieldErrors(entry)
  /\ pc' = AfterRequired(entry)
  /\ i' = 1
  /\ UNCHANGED <<env, run, entry, j, listing, pending, calls, result, written,
                 exitCode, prev>>

\* lines 426-456, followed by the wallet check (line 373)
StrictRepositoryUrlLoop ==
  /\ pc = "urls"
  /\ LET urls == List(entry, "repos")
     IN IF i > Len(urls)
          THEN /\ pc' = "wallets"
               /\ i' = 1
               /\ UNCHANGED <<errors, pending, calls>>
          ELSE IF BlankOrNotString(urls[i])
            THEN /\ errors' = Append(errors, Err("Invalid repository URL", urls[i]))
                 /\ i' = i + 1
                 /\ UNCHANGED <<pc, pending, calls>>
          ELSE IF ~MatchGitHubUrl(urls[i].v).matched
            THEN /\ errors' = Append(errors, Err("Invalid GitHub URL format", urls[i]))
                 /\ i' = i + 1
                 /\ UNCHANGED <<pc, pending, calls>>
            ELSE /\ Await(RepoCall(OwnerOf(urls[i].v), RepoOf(urls[i].v)), "repoLookup")
                 /\ UNCHANGED <<errors, i>>
  /\ UNCHANGED <<env, run, entry, j, listing, result, written, exitCode, prev>>

\* lines 460-468 and 470-478: a missing or non-string address is an error
StrictAddressErrors(value, len, hexLen, missingMsg, msg) ==
  IF ~Truthy(value) \/ ~IsString(value) THEN <<Err(missingMsg, Undef)>>
  ELSE IF AddressInvalid(Trim(value.v), len, hexLen)
    THEN <<Err(msg, Str(Trim(value.v)))>>
  ELSE <<>>

StrictWalletErrors(wallets) ==
  StrictAddressErrors(Field(wallets, "evm"), EvmLen, EvmHexLen,
                      "Missing or invalid 'evm' wallet address",
                      "Invalid EVM wallet address")
  \o StrictAddressErrors(Field(wallets, "flow"), FlowLen, FlowHexLen,
                         "Missing or invalid 'flow' wallet address",
                         "Invalid Flow wallet address")

\* lines 373-375 and 459-481, then the return of lines 377-380
StrictValidateWalletAddresses ==
  /\ pc = "wallets"
  /\ errors' = IF Truthy(Field(entry, "wallets"))
                 THEN errors \o StrictWalletErrors(Field(entry, "wallets"))
                 ELSE errors
  /\ pc' = "return"
  /\ UNCHANGED <<env, run, entry, i, j, listing, pending, calls, result, written,
                 exitCode, prev>>

StrictInit ==
  /\ env \in FieldInputs
  /\ run = 1
  /\ prev = NoPrev
  /\ Fresh

StrictNext ==
  \/ MainStart
  \/ LoadRegistry
  \/ StrictValidateRequiredFields
  \/ GitHubHandleLoop
  \/ UserLookupReturns
  \/ StrictRepositoryUrlLoop
  \/ RepoLookupReturns
  \/ StrictValidateWalletAddresses
  \/ Return
  \/ WriteResult
  \/ WriteFails
  \/ Exit

StrictSpec == StrictInit /\ [][StrictNext]_vars

(***************************************************************************)
(* Properties.                                                             *)
(***************************************************************************)
FileOf(res) == [present |-> TRUE, isValid |-> res.isValid, errors |-> res.errors]

\* C1: every Validation Result validateRegistry returns (the normal return,
\* the early "no valid entries" return and the catch-block return) has
\* isValid true if and only if its errors sequence is empty.
C1_ValidIffNoErrors ==
  /\ result.returned => (result.isValid <=> Len(result.errors) = 0)
  /\ prev.result.returned => (prev.result.isValid <=> Len(prev.result.errors) = 0)

\* a run that returned through the catch block, followed by a run that
\* returned a valid result through the normal return
C1_Witness ==
  /\ run = 2
  /\ env.files[1].outcome = "yamlError"
  /\ prev.result.returned
  /\ ~prev.result.isValid
  /\ pc = "returned"
  /\ entry # Undef
  /\ result.isValid

\* C2 as stated: the process exits with status 0 exactly when the result it
\* obtained has isValid = true, with a non-zero status in every other run, and
\* a result that validateRegistry returned is in tmp/validation-result.json
\* when the process exits.
C2_AsStated ==
  pc = "exited" =>
    /\ (exitCode = 0) <=> (result.returned /\ result.isValid)
    /\ result.returned => written = FileOf(result)

\* C2 amended: the process exits with status 0 exactly when the result has
\* isValid = true and was written to tmp/validation-result.json; every other
\* run (isValid = false, no GITHUB_TOKEN, tmp or the file not writable) exits
\* with status 1; the file is written before the exit and holds the result
\* whenever creating tmp and writing the file did not throw.
C2_ExitStatus ==
  /\ pc = "exited" =>
       /\ exitCode \in {0, 1}
       /\ (exitCode = 0) <=> (result.returned /\ result.isValid /\ written.present)
       /\ ~env.token => (exitCode = 1 /\ ~result.returned)
  /\ written.present => (result.returned /\ written = FileOf(result))
  /\ pc = "written" => (written.present /\ exitCode = -1)
  /\ pc \notin {"exited"} => exitCode = -1

\* a run that exited 0 with its result written, followed by a run whose
\* valid result could not be written and that exited 1
C2_Witness ==
  /\ run = 2
  /\ prev.exitCode = 0
  /\ prev.result.isValid
  /\ pc = "exited"
  /\ result.returned
  /\ result.isValid
  /\ ~written.present
  /\ exitCode = 1

\* the number of elements of seq that satisfy Test
Count(seq, Test(_)) == Len(SelectSeq(seq, Test))

\* a non-empty sequence
NonEmptyList(x) == x.t = "array" /\ Len(x.v) > 0

\* the call returns status 200
Exists(call) ==
  ~Service(Svc, call).thrown /\ Service(Svc, call).status = HTTP_OK

\* a handle that is a non-blank string
WellFormedHandle(h) == h.t = "string" /\ \E k \in 1..Len(h.v) : ~IsSpace(h.v[k])

\* an element of repos that names a GitHub repository
WellFormedUrl(u) == u.t = "string" /\ MatchGitHubUrl(u.v).matched

\* the probes of a repository, as the check evaluates them
ContentOf(url, path) ==
  Service(Svc, ContentCall(OwnerOf(url.v), RepoOf(url.v), path))

SomeProbeConfirms(url) ==
  \/ ReadmeConfirms(ContentOf(url, "README.md"))
  \/ PackageConfirms(ContentOf(url, "package.json"))
  \/ GoModConfirms(ContentOf(url, "go.mod"))
  \/ /\ HasSolidityConfig(ContentOf(url, ""))
     /\ \E k \in 1..Len(ContentOf(url, "").data.names) :
          /\ IsFetchedConfig(ContentOf(url, "").data.names[k])
          /\ ConfigConfirms(ContentOf(url, ContentOf(url, "").data.names[k]))

\* the entry C3 is about: name, github and repos present, every handle and
\* repository existing, the wallet strings (if present) of the required shape
C3_ValidEntry(e) ==
  /\ Field(e, "name").t = "string"
  /\ Field(e, "name").v # <<>>
  /\ NonEmptyList(Field(e, "github"))
  /\ \A k \in 1..Len(Field(e, "github").v) :
       /\ WellFormedHandle(Field(e, "github").v[k])
       /\ Exists(UserCall(Trim(Field(e, "github").v[k].v)))
  /\ NonEmptyList(Field(e, "repos"))
  /\ \A k \in 1..Len(Field(e, "repos").v) :
       /\ WellFormedUrl(Field(e, "repos").v[k])
       /\ Exists(RepoCall(OwnerOf(Field(e, "repos").v[k].v),
                          RepoOf(Field(e, "repos").v[k].v)))
  /\ \A f \in {"evm", "flow"} :
       Field(Field(e, "wallets"), f) # Undef =>
         /\ Field(Field(e, "wallets"), f).t = "string"
         /\ MatchesHexAddress(Field(Field(e, "wallets"), f).v,
                              IF f = "evm" THEN EvmHexLen ELSE FlowHexLen)

\* C3 as stated: for an input whose last entry has a non-empty name,
\* non-empty github and repos sequences of existing accounts and
\* repositories and, if present, well-shaped wallet strings, validateRegistry
\* returns an empty errors sequence and isValid = true.
C3_AsStated ==
  (pc = "returned" /\ entry # Undef /\ C3_ValidEntry(entry)) =>
    (result.errors = <<>> /\ result.isValid)

\* C3 amended: ... and every one of whose repositories is confirmed by a
\* probe of the ecosystem check, and whose x (if a sequence) holds only
\* non-blank strings: then errors is empty and isValid = true.
C3_ValidEntryPasses ==
  (/\ pc = "returned"
   /\ entry # Undef
   /\ C3_ValidEntry(entry)
   /\ \A k \in 1..Len(Field(entry, "repos").v) :
        SomeProbeConfirms(Field(entry, "repos").v[k])
   /\ Field(entry, "x").t = "array" =>
        \A k \in 1..Len(Field(entry, "x").v) :
          WellFormedHandle(Field(entry, "x").v[k]))
  => (result.errors = <<>> /\ result.isValid)

\* a valid entry with wallets and x, its repository confirmed by package.json
C3_Witness ==
  /\ pc = "returned"
  /\ entry # Undef
  /\ C3_ValidEntry(entry)
  /\ Field(entry, "wallets") # Undef
  /\ Field(entry, "x").t = "array"
  /\ \A k \in 1..Len(Field(entry, "repos").v) :
       SomeProbeConfirms(Field(entry, "repos").v[k])
  /\ \E k \in 1..Len(calls) : calls[k].at = "package"
  /\ result.isValid

\* the errors of the required-field check, by the type of each field
C4_Expected(e) ==
  (IF Field(e, "name").t = "string" /\ Len(Field(e, "name").v) > 0
     THEN <<>> ELSE <<Err("Missing or invalid 'name' field", Undef)>>)
  \o (IF NonEmptyList(Field(e, "github"))
        THEN <<>> ELSE <<Err("Missing or invalid 'github' field", Undef)>>)
  \o (IF NonEmptyList(Field(e, "repos"))
        THEN <<>> ELSE <<Err("Missing or invalid 'repos' field", Undef)>>)

IsRequiredFieldError(err) ==
  err.msg \in {"Missing or invalid 'name' field",
               "Missing or invalid 'github' field",
               "Missing or invalid 'repos' field"}

IsWalletError(err) ==
  err.msg \in {"Invalid EVM wallet address", "Invalid Flow wallet address"}

IsXHandleError(err) == err.msg = "Invalid X handle"

IsInvalidHandleError(err) == err.msg = "Invalid GitHub handle"

NotWellFormedHandle(h) == ~WellFormedHandle(h)

ObjectTyped(x) == x.t \in {"object", "array"}

HasObjectRecord(file) ==
  /\ file.outcome = "parsed"
  /\ file.data.t = "array"
  /\ \E k \in 1..Len(file.data.v) : ObjectTyped(file.data.v[k])

\* the last object-typed record of a registry file that has one
LastObjectRecord(file) ==
  file.data.v[CHOOSE k \in 1..Len(file.data.v) :
    /\ ObjectTyped(file.data.v[k])
    /\ \A m \in (k + 1)..Len(file.data.v) : ~ObjectTyped(file.data.v[m])]

\* the user names and repositories a record names
HandlesOf(e) ==
  IF Field(e, "github").t = "array"
    THEN {Trim(Field(e, "github").v[k].v) :
            k \in {m \in 1..Len(Field(e, "github").v) :
                     Field(e, "github").v[m].t = "string"}}
    ELSE {}

ReposOf(e) ==
  IF Field(e, "repos").t = "array"
    THEN {<<OwnerOf(Field(e, "repos").v[k].v), RepoOf(Field(e, "repos").v[k].v)>> :
            k \in {m \in 1..Len(Field(e, "repos").v) :
                     WellFormedUrl(Field(e, "repos").v[m])}}
    ELSE {}

\* C5: only the last object-typed record of the parsed sequence is
\* inspected: two runs over registry files with the same last object-typed
\* record (and the same service) return the same result and issue the same
\* calls, however the earlier records differ, and every external call is for
\* a handle or repository of that last record.
C5_OnlyLastRecord ==
  /\ (/\ run = 2
      /\ result.returned
      /\ HasObjectRecord(env.files[1])
      /\ HasObjectRecord(env.files[2])
      /\ LastObjectRecord(env.files[1]) = LastObjectRecord(env.files[2]))
     => (result = prev.result /\ calls = prev.calls)
  /\ calls # <<>> =>
       /\ HasObjectRecord(env.files[run])
       /\ LET last == LastObjectRecord(env.files[run])
              handles == HandlesOf(last)
              repos == ReposOf(last)
          IN  \A k \in 1..Len(calls) :
                IF calls[k].call.api = "users.getByUsername"
                  THEN calls[k].call.owner \in handles
                  ELSE <<calls[k].call.owner, calls[k].call.repo>> \in repos

\* two runs over different files with the same last object-typed record, an
\* earlier record naming other handles and repositories; both issued calls
C5_Witness ==
  /\ run = 2
  /\ pc = "returned"
  /\ env.files[1] = Parsed(Arr(<<EntryB, EntryA>>))
  /\ env.files[2] = Parsed(Arr(<<EntryA, Null>>))
  /\ Len(calls) > 0
  /\ result = prev.result

\* the registry file does not yield an object-typed record
C6_NoEntry(file) ==
  \/ file.outcome # "parsed"
  \/ file.data.t # "array"
  \/ \A k \in 1..Len(file.data.v) : ~ObjectTyped(file.data.v[k])

\* C6: when reading or parsing the registry throws, the parsed value is not
\* a list, or the list holds no object-typed record, validateRegistry returns
\* (no exception leaves it) isValid = false with exactly one error, and no
\* external call is issued.
C6_ParseFailure ==
  (pc \notin {"main", "load"} /\ env.token /\ C6_NoEntry(env.files[run])) =>
    /\ result.returned
    /\ ~result.isValid
    /\ Len(result.errors) = 1
    /\ entry = Undef
    /\ calls = <<>>
    /\ pending = NoCall

\* a list of records none of which is object-typed: the early return
C6_Witness ==
  /\ pc = "returned"
  /\ env.files[run] = Parsed(Arr(<<Null, Str(<<"x">>)>>))
  /\ result.errors = <<Err("No valid registry entries found", Undef)>>

\* the ecosystem check of the entry is over
EcoDone == entry # Undef /\ pc \in {"wallets", "x", "return", "returned"}

ReposList == IF IsList(entry, "repos") THEN List(entry, "repos") ELSE <<>>

\* C7 as stated: for each well-formed repository URL, independently of the
\* other URLs of the list, the result holds one ecosystem-requirement error
\* naming it (one per occurrence) if none of its probes confirms and none if
\* some probe confirms.
C7_AsStated ==
  EcoDone =>
    \A k \in 1..Len(ReposList) :
      WellFormedUrl(ReposList[k]) =>
        Count(errors, LAMBDA e : e = EcoError(ReposList[k]))
          = IF SomeProbeConfirms(ReposList[k])
              THEN 0
              ELSE Cardinality({m \in 1..Len(ReposList) : ReposList[m] = ReposList[k]})

EcoStages == <<"readme", "package", "gomod", "root">>
EcoPaths == <<"README.md", "package.json", "go.mod", "">>

IsProbe(c) == c.at \in {"readme", "package", "gomod", "root", "config"}

\* the probes issued for item k of repos, in the order they were issued
ProbesOf(k) == SelectSeq(calls, LAMBDA c : IsProbe(c) /\ c.item = k)

\* the README's lowercase text contains "on flow" or "flow blockchain"
ReadmeHasMarker(reply) ==
  /\ ~reply.thrown
  /\ reply.status = HTTP_OK
  /\ reply.data.kind = "file"
  /\ \E k \in 1..Len(reply.data.text) :
       \/ OccursAt(ToLowerCase(reply.data.text), OnFlow, k)
       \/ OccursAt(ToLowerCase(reply.data.text), FlowBlockchain, k)

\* the reply to a logged probe confirms the requirement
ProbeConfirmed(c) ==
  CASE c.at = "readme" -> ReadmeHasMarker(Service(Svc, c.call))
    [] c.at = "package" -> PackageConfirms(Service(Svc, c.call))
    [] c.at = "gomod" -> GoModConfirms(Service(Svc, c.call))
    [] c.at = "config" -> ConfigConfirms(Service(Svc, c.call))
    [] OTHER -> FALSE

\* C8: for each repository URL the probes are issued in the order README.md,
\* package.json, go.mod, root listing (then the listed configuration files),
\* for the repository the URL names, each only after the reply to the
\* previous one did not confirm; after a confirming probe (a README whose
\* lowercase text contains "on flow" or "flow blockchain") no further probe
\* is issued for that URL; at most the newest call is being awaited.
C8_ProbeOrder ==
  /\ pending # NoCall => (Len(calls) > 0 /\ pending = calls[Len(calls)].call)
  /\ \A k \in 1..Len(ReposList) :
       LET probes == ProbesOf(k)
       IN  \A n \in 1..Len(probes) :
             /\ probes[n].call.api = "repos.getContent"
             /\ probes[n].call.owner = OwnerOf(ReposList[k].v)
             /\ probes[n].call.repo = RepoOf(ReposList[k].v)
             /\ n <= Len(EcoStages) =>
                  /\ probes[n].at = EcoStages[n]
                  /\ probes[n].call.path = EcoPaths[n]
             /\ n > Len(EcoStages) => probes[n].at = "config"
             /\ n < Len(probes) => ~ProbeConfirmed(probes[n])
  /\ \A n \in 1..Len(calls) :
       IsProbe(calls[n]) => calls[n].item \in 1..Len(ReposList)

\* the first repository went through all four probes without a confirmation,
\* the second one was confirmed by its README and probed no further
C8_Witness ==
  /\ pc = "returned"
  /\ Len(ReposList) = 2
  /\ Len(ProbesOf(1)) = Len(EcoStages)
  /\ Len(ProbesOf(2)) = 1
  /\ ProbeConfirmed(ProbesOf(2)[1])
  /\ Count(errors, LAMBDA e : e = EcoError(ReposList[1])) = 1

\* the manifest lists @onflow/fcl or @onflow/kit in dependencies or in
\* devDependencies
ManifestListsFlow(reply) ==
  /\ ~reply.thrown
  /\ reply.status = HTTP_OK
  /\ reply.data.kind = "file"
  /\ reply.data.json.t = "object"
  /\ \E section \in {"dependencies", "devDependencies"} :
       /\ reply.data.json.v[section].present
       /\ reply.data.json.v[section].pkgs \cap FlowPackages # {}

\* C9 as stated: the package.json probe confirms whenever the manifest lists
\* @onflow/fcl or @onflow/kit in dependencies or devDependencies (also with
\* no dependencies section): the go.mod probe is then never issued.
C9_AsStated ==
  \A n \in 1..Len(calls) :
    calls[n].at = "gomod" =>
      ~ManifestListsFlow(Service(Svc,
          ContentCall(calls[n].call.owner, calls[n].call.repo, "package.json")))

\* a recognized configuration file of the root listing holds the endpoint
SomeConfigHasEndpoint(url) ==
  /\ ~ContentOf(url, "").thrown
  /\ ContentOf(url, "").status = HTTP_OK
  /\ ContentOf(url, "").data.kind = "dir"
  /\ \E k \in 1..Len(ContentOf(url, "").data.names) :
       /\ ContentOf(url, "").data.names[k] \in SolidityConfigs
       /\ ~ContentOf(url, ContentOf(url, "").data.names[k]).thrown
       /\ ContentOf(url, ContentOf(url, "").data.names[k]).status = HTTP_OK
       /\ ContentOf(url, ContentOf(url, "").data.names[k]).data.kind = "file"
       /\ Includes(ContentOf(url, ContentOf(url, "").data.names[k]).data.text,
                   EvmEndpoint)

\* C10 as stated: in the root-directory probe every recognized configuration
\* file of the root (hardhat.config.js, hardhat.config.ts, truffle-config.js,
\* foundry.toml) is checked for the Flow EVM endpoint and the requirement is
\* satisfied if one of them holds it: no ecosystem error names such a URL.
C10_AsStated ==
  EcoDone =>
    \A k \in 1..Len(ReposList) :
      (WellFormedUrl(ReposList[k]) /\ SomeConfigHasEndpoint(ReposList[k])) =>
        Count(errors, LAMBDA e : e = EcoError(ReposList[k])) = 0

\* the errors F gives for the elements of seq, in the order of the elements
ConcatMap(seq, F(_)) ==
  LET upTo[n \in 0..Len(seq)] == IF n = 0 THEN <<>> ELSE upTo[n - 1] \o F(seq[n])
  IN  upTo[Len(seq)]

\* the calls logged at stage where for item k
CallsFor(where, k) == SelectSeq(calls, LAMBDA c : c.at = where /\ c.item = k)

\* the entry's github and repos lists as the checks receive them
HandlesList == IF IsList(entry, "github") THEN List(entry, "github") ELSE <<>>

IsHandleCheckError(err) ==
  err.msg \in {"Invalid GitHub handle", "GitHub handle is not valid or not found",
               "GitHub handle is not accessible"}

IsRepoLookupError(err) ==
  err.msg \in {"Repository is not valid or not found",
               "Repository is not accessible"}

\* what the handle check owes to handle h, by the service's answer
C11_HandleErrors(h) ==
  IF ~WellFormedHandle(h) THEN <<Err("Invalid GitHub handle", h)>>
  ELSE IF Service(Svc, UserCall(Trim(h.v))).thrown
    THEN <<Err("GitHub handle is not valid or not found", h)>>
  ELSE IF Service(Svc, UserCall(Trim(h.v))).status # HTTP_OK
    THEN <<Err("GitHub handle is not accessible", h)>>
  ELSE <<>>

\* what the existence check owes to repos element u
C11_RepoErrors(u) ==
  IF ~WellFormedUrl(u) THEN <<>>
  ELSE IF Service(Svc, RepoCall(OwnerOf(u.v), RepoOf(u.v))).thrown
    THEN <<Err("Repository is not valid or not found", u)>>
  ELSE IF Service(Svc, RepoCall(OwnerOf(u.v), RepoOf(u.v))).status # HTTP_OK
    THEN <<Err("Repository is not accessible", u)>>
  ELSE <<>>

\* validateRegistry has returned the result of checking an entry: errors and
\* calls only grow during a run, so they hold all that the checks did
HandlesChecked == entry # Undef /\ pc = "returned"

UrlsChecked == HandlesChecked

\* C11: for every non-blank github handle exactly one user lookup is issued
\* and for every well-formed repository URL exactly one repository lookup (no
\* retry); a thrown lookup or a status other than 200 appends exactly one
\* error naming that handle or URL and the loop goes on with the next item; a
\* blank or non-string handle appends one error and issues no lookup.
C11_ExistenceChecks ==
  /\ HandlesChecked =>
       /\ SelectSeq(errors, IsHandleCheckError)
            = ConcatMap(HandlesList, C11_HandleErrors)
       /\ \A k \in 1..Len(HandlesList) :
            CallsFor("userLookup", k)
              = IF WellFormedHandle(HandlesList[k])
                  THEN <<[call |-> UserCall(Trim(HandlesList[k].v)), item |-> k,
                          at |-> "userLookup"]>>
                  ELSE <<>>
       /\ Count(calls, LAMBDA c : c.call.api = "users.getByUsername")
            = Count(HandlesList, WellFormedHandle)
  /\ UrlsChecked =>
       /\ SelectSeq(errors, IsRepoLookupError)
            = ConcatMap(ReposList, C11_RepoErrors)
       /\ \A k \in 1..Len(ReposList) :
            WellFormedUrl(ReposList[k]) =>
              CallsFor("repoLookup", k)
                = <<[call |-> RepoCall(OwnerOf(ReposList[k].v),
                                       RepoOf(ReposList[k].v)),
                     item |-> k, at |-> "repoLookup"]>>
       /\ Count(calls, LAMBDA c : c.call.api = "repos.get")
            = Count(ReposList, WellFormedUrl)

\* a blank handle, a non-string handle and a handle answered with status 202,
\* each with its one error, and a repository whose lookup throws, looked up once
C11_Witness ==
  /\ pc = "returned"
  /\ HandlesList = <<Str(<<" ">>), Num(0), Str(Bob)>>
  /\ SelectSeq(errors, IsHandleCheckError)
       = <<Err("Invalid GitHub handle", Str(<<" ">>)),
           Err("Invalid GitHub handle", Num(0)),
           Err("GitHub handle is not accessible", Str(Bob))>>
  /\ Count(calls, LAMBDA c : c.call.api = "users.getByUsername") = 1
  /\ ReposList = <<Num(1), Str(<<" ">>), Str(UrlNoRepo), Str(UrlO)>>
  /\ SelectSeq(errors, IsRepoLookupError)
       = <<Err("Repository is not valid or not found", Str(UrlO))>>
  /\ Count(calls, LAMBDA c : c.call.api = "repos.get") = 1

IsUrlFormatError(err) ==
  err.msg \in {"Invalid repository URL", "Invalid GitHub URL format"}

IsRepositoryError(err) ==
  IsUrlFormatError(err) \/ IsRepoLookupError(err) \/ err.msg = EcoError(Undef).msg

\* the format error owed to repos element u: none if it names a repository
C12_FormatErrors(u) ==
  IF u.t # "string" \/ ~WellFormedHandle(u) THEN <<Err("Invalid repository URL", u)>>
  ELSE IF ~WellFormedUrl(u) THEN <<Err("Invalid GitHub URL format", u)>>
  ELSE <<>>

\* the calls issued for item k of repos, lookup and probes
RepoCallsOf(k) ==
  SelectSeq(calls, LAMBDA c : c.item = k /\ (c.at = "repoLookup" \/ IsProbe(c)))

\* C12: a repos element that does not parse as a GitHub repository URL gets
\* exactly one error, its format error, and no repository lookup and no
\* ecosystem probe; the other elements are still checked: every well-formed
\* element is looked up, and the ecosystem check goes past malformed elements
\* to probe the first well-formed one.
C12_MalformedUrl ==
  /\ UrlsChecked =>
       /\ SelectSeq(errors, IsUrlFormatError) = ConcatMap(ReposList, C12_FormatErrors)
       /\ \A k \in 1..Len(ReposList) :
            IF WellFormedUrl(ReposList[k])
              THEN Len(CallsFor("repoLookup", k)) = 1
              ELSE RepoCallsOf(k) = <<>>
  /\ UrlsChecked =>
       \A n \in 1..Len(errors) :
         (IsRepoLookupError(errors[n]) \/ errors[n].msg = EcoError(Undef).msg)
           => WellFormedUrl(errors[n].arg)
  /\ \A n \in 1..Len(calls) :
       (calls[n].at = "repoLookup" \/ IsProbe(calls[n])) =>
         calls[n].item \in 1..Len(ReposList)
  /\ UrlsChecked =>
       \A k \in 1..Len(ReposList) :
         (/\ WellFormedUrl(ReposList[k])
          /\ \A m \in 1..(k - 1) : ~WellFormedUrl(ReposList[m]))
           => ProbesOf(k) # <<>>

\* a non-string, a blank and an unparsable element, one format error each and
\* no call, followed by a well-formed URL that was looked up and probed
C12_Witness ==
  /\ pc = "returned"
  /\ ReposList = <<Num(1), Str(<<" ">>), Str(UrlNoRepo), Str(UrlO)>>
  /\ SelectSeq(errors, IsRepositoryError)
       = <<Err("Invalid repository URL", Num(1)),
           Err("Invalid repository URL", Str(<<" ">>)),
           Err("Invalid GitHub URL format", Str(UrlNoRepo)),
           Err("Repository is not valid or not found", Str(UrlO)),
           EcoError(Str(UrlO))>>
  /\ RepoCallsOf(1) \o RepoCallsOf(2) \o RepoCallsOf(3) = <<>>
  /\ Len(RepoCallsOf(4)) = 1 + Len(EcoStages)

\* the wallet check of the entry is over
WalletsDone == entry # Undef /\ pc \in {"x", "return", "returned"}

\* value is a string that, surrounding whitespace aside, is 0x followed by
\* exactly hexLen hexadecimal characters
WellShapedAddress(value, hexLen) ==
  value.t = "string" /\ MatchesHexAddress(Trim(value.v), hexLen)

\* C13 as stated: when wallets is present, the wallet check appends exactly
\* one error for evm if and only if the evm value does not match 0x followed
\* by exactly 40 hexadecimal characters and exactly one error for flow if and
\* only if the flow value does not match 0x followed by exactly 16, for every
\* present value of evm and flow, a non-string value included.
C13_AsStated ==
  (WalletsDone /\ Truthy(Field(entry, "wallets"))) =>
    /\ Field(Field(entry, "wallets"), "evm") # Undef =>
         Count(errors, LAMBDA e : e.msg = "Invalid EVM wallet address")
           = IF WellShapedAddress(Field(Field(entry, "wallets"), "evm"), EvmHexLen)
               THEN 0 ELSE 1
    /\ Field(Field(entry, "wallets"), "flow") # Undef =>
         Count(errors, LAMBDA e : e.msg = "Invalid Flow wallet address")
           = IF WellShapedAddress(Field(Field(entry, "wallets"), "flow"), FlowHexLen)
               THEN 0 ELSE 1

\* the entry has no wallets field, or its wallets lacks evm or lacks flow
WalletsIncomplete(e) ==
  \/ Field(e, "wallets") = Undef
  \/ Field(Field(e, "wallets"), "evm") = Undef
  \/ Field(Field(e, "wallets"), "flow") = Undef

IsWalletRequiredError(err) ==
  err.msg \in {"Missing or invalid 'wallets' field",
               "Missing or invalid 'evm' wallet address",
               "Missing or invalid 'flow' wallet address"}

\* C14 as stated: the wallets block is required: an entry that has no
\* wallets field, or whose wallets lacks evm or lacks flow, yields
\* isValid = false with a required-field error for the missing item.
C14_AsStated ==
  (pc = "returned" /\ entry # Undef /\ WalletsIncomplete(entry)) =>
    /\ ~result.isValid
    /\ \E n \in 1..Len(result.errors) : IsWalletRequiredError(result.errors[n])

\* the same statement holds of the strict variant (checked under StrictSpec):
\* without wallets the error about wallets, without evm or flow the error
\* about that address
C14_StrictVariant ==
  (pc = "returned" /\ entry # Undef /\ WalletsIncomplete(entry)) =>
    /\ ~result.isValid
    /\ Field(entry, "wallets") = Undef =>
         Count(result.errors,
               LAMBDA e : e.msg = "Missing or invalid 'wallets' field") = 1
    /\ (Field(entry, "wallets") # Undef
        /\ Field(Field(entry, "wallets"), "evm") = Undef) =>
         Count(result.errors,
               LAMBDA e : e.msg = "Missing or invalid 'evm' wallet address") = 1
    /\ (Field(entry, "wallets") # Undef
        /\ Field(Field(entry, "wallets"), "flow") = Undef) =>
         Count(result.errors,
               LAMBDA e : e.msg = "Missing or invalid 'flow' wallet address") = 1

CheckRank(err) ==
  IF IsRequiredFieldError(err) THEN 1
  ELSE IF IsHandleCheckError(err) THEN 2
  ELSE IF IsUrlFormatError(err) \/ IsRepoLookupError(err) THEN 3
  ELSE IF err.msg = EcoError(Undef).msg THEN 4
  ELSE IF IsWalletError(err) THEN 5
  ELSE IF IsXHandleError(err) THEN 6
  ELSE 0

IsPrefix(s, t) == Len(s) <= Len(t) /\ SubSeq(t, 1, Len(s)) = s

XList == IF IsList(entry, "x") THEN List(entry, "x") ELSE <<>>

\* what the two repository checks of validateRepositoryUrls owe to element u
C16_UrlErrors(u) == C12_FormatErrors(u) \o C11_RepoErrors(u)

C16_XErrors(h) == IF WellFormedHandle(h) THEN <<>> ELSE <<Err("Invalid X handle", h)>>

\* the ecosystem errors name elements of repos in the order of the list
EcoErrorsInItemOrder ==
  \E K \in SUBSET (1..Len(ReposList)) :
    SelectSeq(errors, LAMBDA e : CheckRank(e) = 4)
      = ConcatMap([k \in 1..Len(ReposList) |-> k],
                  LAMBDA k : IF k \in K THEN <<EcoError(ReposList[k])>> ELSE <<>>)

AwaitingReply ==
  pc \in {"userLookup", "repoLookup", "readme", "package", "gomod", "root", "config"}

\* the errors are ordered by check at every moment and, in the result (to
\* which the run only appended), within each check by item
C16_Ordered ==
  /\ \A m, n \in 1..Len(errors) : m < n => CheckRank(errors[m]) <= CheckRank(errors[n])
  /\ \A m, n \in 1..Len(errors) :
       (m < n /\ IsWalletError(errors[m]) /\ IsWalletError(errors[n])) =>
         /\ errors[m].msg = "Invalid EVM wallet address"
         /\ errors[n].msg = "Invalid Flow wallet address"
  /\ result.returned => result.errors = errors
  /\ (pc = "returned" /\ entry # Undef) =>
       /\ SelectSeq(errors, IsHandleCheckError)
            = ConcatMap(HandlesList, C11_HandleErrors)
       /\ SelectSeq(errors, LAMBDA e : CheckRank(e) = 3)
            = ConcatMap(ReposList, C16_UrlErrors)
       /\ EcoErrorsInItemOrder
       /\ SelectSeq(errors, IsXHandleError) = ConcatMap(XList, C16_XErrors)

\* at most one call is outstanding: one is awaited exactly at the awaiting
\* positions, and it is the newest call issued
C16_OneOutstanding ==
  /\ (pending # NoCall) <=> AwaitingReply
  /\ pending # NoCall => (Len(calls) > 0 /\ calls[Len(calls)].call = pending)

\* within a run a step only appends to errors, and issues at most one call,
\* which is then the awaited one
C16_Step ==
  run' = run =>
    /\ IsPrefix(errors, errors')
    /\ \/ calls' = calls
       \/ /\ Len(calls') = Len(calls) + 1
          /\ SubSeq(calls', 1, Len(calls)) = calls
          /\ pending' = calls'[Len(calls')].call

\* C16: the errors sequence is append-only and ordered by the order in which
\* the checks run: required-field errors, then github-handle errors, then
\* repository-URL format and existence errors, then ecosystem-requirement
\* errors, then wallet errors, then X-handle errors; within one check the
\* errors follow the order of the items of the entry; at most one external
\* call is outstanding at any time.
C16_ErrorOrder == [](C16_Ordered /\ C16_OneOutstanding) /\ [][C16_Step]_vars

\* a result with errors of all six checks, in the order of the checks
C16_Witness ==
  /\ pc = "returned"
  /\ entry = EntryC
  /\ [k \in 1..Len(result.errors) |-> CheckRank(result.errors[k])]
       = <<1, 2, 2, 2, 3, 3, 4, 4, 5, 5, 6, 6>>

====
